---- MODULE Spec2Model ----
(***************************************************************************)
(* A model of the mermaid flowchart library (src/mermaid.py) and of the    *)
(* source dependency diagram built on it (src/diagrams.py).                *)
(*                                                                         *)
(* Python values are modelled as follows.                                  *)
(*   str            a TLA+ string                                          *)
(*   None / a value the empty tuple <<>> / the one-element tuple <<v>>     *)
(*   dict (ordered) a sequence of <<key, value>> pairs, in insertion order *)
(*   dict read only by key: a record                                       *)
(*   an object      an entry of heap (Node) or of charts (Flowchart)       *)
(*   an exception   the field err of an outcome record, "" meaning none    *)
(***************************************************************************)
EXTENDS Integers, Sequences, FiniteSets, TLC

VARIABLES
    id_iter,          \* Node.id_iter: the next value the class-wide counter yields
    heap,             \* the Node objects, by reference
    charts,           \* the Flowchart objects, by reference
    issued,           \* history: the identities issued, one batch per issuing call
    mermaid,          \* the last markup returned, None before any
    click_calls,      \* history: the click calls made, when a specification records them
    runs,             \* history: the pipeline runs made, over all processes
    restarts,         \* the number of times the process was started again
    sources_config,   \* the sources config handed to the resolver
    dependency_tree   \* the outcome of the last get_source_dependency_tree call

vars ==
    <<id_iter, heap, charts, issued, mermaid, click_calls, runs, restarts,
      sources_config, dependency_tree>>

----------------------------------------------------------------------------
(* Bounds of the model *)

MaxNodes == 2        \* Node objects created one by one
MaxItems == 6        \* Node objects, styled nodes and entries of one chart together
MaxGraphs == 2       \* Flowchart objects that builds are interleaved between
MaxCalls == 3        \* identity-issuing calls in one run
MaxClicks == 3       \* click calls on one chart
MaxRuns == 2         \* identity-issuing calls of one process in SpecPipeline
MaxUnion == 2        \* child keys of one union definition
RecursionLimit == 4  \* call depth at which the interpreter raises RecursionError

----------------------------------------------------------------------------
(* Python values *)

None == <<>>
Some(x) == <<x>>
IsNone(o) == Len(o) = 0
Val(o) == o[1]

Range(s) == {s[i] : i \in DOMAIN s}

\* bool(x) of an optional str, an optional int, an optional sequence
TruthyStr(o) == ~IsNone(o) /\ Len(Val(o)) > 0
TruthyInt(o) == ~IsNone(o) /\ Val(o) # 0
TruthySeq(o) == ~IsNone(o) /\ Len(Val(o)) > 0

Digits == "0123456789"

\* str(n) of a natural number
RECURSIVE str(_)
str(n) ==
    IF n < 10 THEN SubSeq(Digits, n + 1, n + 1)
    ELSE str(n \div 10) \o SubSeq(Digits, (n % 10) + 1, (n % 10) + 1)

\* sep.join(parts)
RECURSIVE join(_, _)
join(sep, parts) ==
    IF Len(parts) = 0 THEN ""
    ELSE IF Len(parts) = 1 THEN parts[1]
    ELSE parts[1] \o sep \o join(sep, Tail(parts))

\* s.strip(" ")
RECURSIVE lstrip(_)
lstrip(s) == IF Len(s) > 0 /\ Head(s) = " " THEN lstrip(Tail(s)) ELSE s

RECURSIVE rstrip(_)
rstrip(s) ==
    IF Len(s) > 0 /\ SubSeq(s, Len(s), Len(s)) = " "
    THEN rstrip(SubSeq(s, 1, Len(s) - 1))
    ELSE s

strip(s) == rstrip(lstrip(s))

\* dict: key lookup, and d[k] = v (an existing key keeps its place)
DictKeys(d) == [i \in DOMAIN d |-> d[i][1]]
DictValues(d) == [i \in DOMAIN d |-> d[i][2]]
DictHas(d, k) == \E i \in DOMAIN d : d[i][1] = k

\* a dict in which a key set again moves to the end
DictSet_MoveToEnd(d, k, v) ==
    Append(SelectSeq(d, LAMBDA e : e[1] # k), <<k, v>>)

DictSet(d, k, v) ==
    IF DictHas(d, k)
    THEN [i \in DOMAIN d |-> IF d[i][1] = k THEN <<k, v>> ELSE d[i]]
    ELSE Append(d, <<k, v>>)

\* a merge that keeps only the mapping merged last
DictUpdate_Replace(d, other) == other

RECURSIVE DictUpdate(_, _)
DictUpdate(d, other) ==
    IF Len(other) = 0 THEN d
    ELSE DictUpdate(DictSet(d, other[1][1], other[1][2]), Tail(other))

----------------------------------------------------------------------------
(* src/mermaid.py: Node *)

FirstId == 100

\* Node.__init__: the object, given the identity drawn from id_iter
Node(id, label, shape, style) ==
    [label |-> label, node_id |-> str(id), shape |-> shape, style |-> style]

set_style(self, fill, stroke, stroke_width, stroke_dasharray) ==
    LET s0 == "style " \o self.node_id
        s1 == IF TruthyStr(fill) THEN s0 \o " fill:" \o Val(fill) \o "," ELSE s0
        s2 == IF TruthyStr(stroke) THEN s1 \o " stroke:" \o Val(stroke) \o "," ELSE s1
        s3 == IF TruthyInt(stroke_width)
              THEN s2 \o " stroke-width:" \o str(Val(stroke_width)) \o "px,"
              ELSE s2
        s4 == IF TruthySeq(stroke_dasharray)
              THEN s3 \o " stroke-dasharray: "
                      \o join(" ", [i \in DOMAIN Val(stroke_dasharray) |->
                                        str(Val(stroke_dasharray)[i])])
                      \o ","
              ELSE s3
    IN  [self EXCEPT !.style = Some(SubSeq(s4, 1, Len(s4) - 1))]

get_node_code(self) ==
    LET shape_midpoint == Len(self.shape) \div 2
    IN  "\n" \o self.node_id \o SubSeq(self.shape, 1, shape_midpoint) \o self.label
             \o SubSeq(self.shape, shape_midpoint + 1, Len(self.shape))

----------------------------------------------------------------------------
(* src/mermaid.py: Flowchart *)

Flowchart ==
    [orientation |-> "TD", theme |-> "default",
     nodes |-> <<>>, paths |-> <<>>, hrefs |-> <<>>, clicks |-> <<>>]

add_node(self, node) == [self EXCEPT !.nodes = Append(@, node)]

add_nodes(self, node_list) == [self EXCEPT !.nodes = @ \o node_list]

add_path(self, h, start_node, end_node, label, path_style) ==
    LET lab == IF label # "" THEN "|" \o label \o "|" ELSE label
    IN  [self EXCEPT !.paths =
            Append(@, "\n" \o h[start_node].node_id \o " " \o path_style \o lab
                           \o h[end_node].node_id)]

add_href_click(self, h, node, click_value, tooltip) ==
    LET tip == IF tooltip # "_blank" THEN "\"" \o tooltip \o "\" _blank" ELSE tooltip
    IN  [self EXCEPT !.hrefs =
            DictSet(@, node, "\nclick " \o h[node].node_id \o " \"" \o click_value
                                 \o "\" " \o tip)]

add_fn_click(self, h, node, click_value, tooltip) ==
    [self EXCEPT !.clicks =
        DictSet(@, node, "\nclick " \o h[node].node_id \o " call " \o click_value
                             \o " \"" \o tooltip \o "\" ")]

RECURSIVE NodesCode(_, _)
NodesCode(h, nodes) ==
    IF Len(nodes) = 0 THEN ""
    ELSE LET node == h[Head(nodes)]
         IN  strip(get_node_code(node))
             \o (IF ~IsNone(node.style) THEN "\n" \o strip(Val(node.style)) ELSE "")
             \o NodesCode(h, Tail(nodes))

RECURSIVE StripAll(_)
StripAll(texts) ==
    IF Len(texts) = 0 THEN "" ELSE strip(Head(texts)) \o StripAll(Tail(texts))

\* a serializer that emits the href directives before the callback directives
to_mermaid_HrefsFirst(self, h) ==
    "graph " \o self.orientation
        \o NodesCode(h, self.nodes)
        \o StripAll(self.paths)
        \o StripAll(DictValues(self.hrefs))
        \o StripAll(DictValues(self.clicks))

to_mermaid(self, h) ==
    "graph " \o self.orientation
        \o NodesCode(h, self.nodes)
        \o StripAll(self.paths)
        \o StripAll(DictValues(self.clicks))
        \o StripAll(DictValues(self.hrefs))

----------------------------------------------------------------------------
(* src/diagrams.py: get_source_dependency_tree                              *)
(*                                                                         *)
(* sources_config maps every key to None (no such key) or to its source    *)
(* definition; a definition's fields are None when absent.  The connection *)
(* field holds the connection dict, whose config field holds the set of    *)
(* keys of the nested connection config.  A dependency tree is a dict      *)
(* <<key, nest>>; a nest is [str |-> tag] (isinstance(nest, str)) or       *)
(* [dict |-> d] with d a record keyed by the composite tag.  An outcome    *)
(* carries the exception raised (err), the tree returned and the number of *)
(* invocations made (calls).                                               *)

Raise(e, n) == [err |-> e, tree |-> <<>>, calls |-> n]
Return(t, n) == [err |-> "", tree |-> t, calls |-> n]

InvalidSourceConfig == "Exception: Invalid source config."
InvalidSourceType ==
    "Exception: Invalid source type. Must be either: sql, file, union_dir, mapping, union or multi."

complex_sources == {"mapping", "union", "multi"}

\* a resolver that takes a declared file or sql kind as the leaf kind
simple_source_Declared(key, source_config) ==
    LET source_type == source_config.type
    IN  IF IsNone(source_type) THEN
            IF IsNone(source_config.connection) THEN Raise("AttributeError", 1)
            ELSE LET cfg == Val(source_config.connection).config
                 IN  IF IsNone(cfg) THEN Raise(InvalidSourceConfig, 1)
                     ELSE IF "file_type" \in Val(cfg)
                     THEN Return(<< <<key, [str |-> "file"]>> >>, 1)
                     ELSE Return(<< <<key, [str |-> "sql"]>> >>, 1)
        ELSE IF Val(source_type) \in {"union_directory", "file", "sql"}
        THEN Return(<< <<key, [str |-> Val(source_type)]>> >>, 1)
        ELSE Raise(InvalidSourceType, 1)

\* lines 56-73: a source that is not complex
simple_source(key, source_config) ==
    LET source_type == source_config.type
    IN  IF IsNone(source_type) THEN
            IF IsNone(source_config.connection) THEN Raise("AttributeError", 1)
            ELSE LET cfg == Val(source_config.connection).config
                 IN  IF IsNone(cfg) THEN Raise(InvalidSourceConfig, 1)
                     ELSE IF "file_type" \in Val(cfg)
                     THEN Return(<< <<key, [str |-> "file"]>> >>, 1)
                     ELSE Return(<< <<key, [str |-> "sql"]>> >>, 1)
        ELSE IF Val(source_type) = "union_directory"
        THEN Return(<< <<key, [str |-> "union_directory"]>> >>, 1)
        ELSE Raise(InvalidSourceType, 1)

RECURSIVE get_source_dependency_tree(_, _, _)
RECURSIVE union_loop(_, _, _, _, _)

\* lines 85-88: the loop over the union's source keys
union_loop(config, sources, union_nest, depth, calls) ==
    IF Len(sources) = 0 THEN Return(union_nest, calls)
    ELSE LET r == get_source_dependency_tree(config, Some(Head(sources)), depth + 1)
         IN  IF r.err # "" THEN Raise(r.err, calls + r.calls)
             ELSE union_loop(config, Tail(sources), DictUpdate(union_nest, r.tree),
                             depth, calls + r.calls)

get_source_dependency_tree(config, source_key, depth) ==
    IF depth > RecursionLimit THEN Raise("RecursionError", 1)
    ELSE IF IsNone(source_key) \/ IsNone(config[Val(source_key)]) THEN Raise("KeyError", 1)
    ELSE
    LET key == Val(source_key)
        source_config == Val(config[key])
        source_type == source_config.type
    IN  IF IsNone(source_type) \/ Val(source_type) \notin complex_sources THEN
            simple_source(key, source_config)
        ELSE IF Val(source_type) = "mapping" THEN
            LET l == get_source_dependency_tree(config, source_config.left, depth + 1)
                r == get_source_dependency_tree(config, source_config.right, depth + 1)
            IN  IF l.err # "" THEN Raise(l.err, 1 + l.calls)
                ELSE IF r.err # "" THEN Raise(r.err, 1 + l.calls + r.calls)
                ELSE Return(<< <<key, [dict |-> [mapping |->
                                [left |-> l.tree, right |-> r.tree]]]>> >>,
                            1 + l.calls + r.calls)
        ELSE IF Val(source_type) = "union" THEN
            IF IsNone(source_config.sources) THEN Raise("KeyError", 1)
            ELSE LET u == union_loop(config, Val(source_config.sources), <<>>, depth, 1)
                 IN  IF u.err # "" THEN u
                     ELSE Return(<< <<key, [dict |-> [union |-> u.tree]]>> >>, u.calls)
        ELSE
            LET o == get_source_dependency_tree(config, source_config.original, depth + 1)
            IN  IF o.err # "" THEN Raise(o.err, 1 + o.calls)
                ELSE Return(<< <<key, [dict |-> [multi |-> o.tree]]>> >>, 1 + o.calls)

----------------------------------------------------------------------------
(* src/diagrams.py: build_source_dependency_chart                           *)
(*                                                                         *)
(* A world is what a build reads and writes: the counter, the Node         *)
(* objects, the chart being built, the identities issued by the call and   *)
(* the exception raised, if any.                                           *)

World(counter, h, chart) ==
    [id_iter |-> counter, heap |-> h, chart |-> chart, ids |-> <<>>, err |-> ""]

\* a constructor that draws no new value from the counter
NewNode_SameId(w, label, shape) ==
    [w EXCEPT !.heap = (w.id_iter :> Node(w.id_iter, label, shape, None)) @@ @,
              !.ids = Append(@, w.id_iter)]

\* Node(label, shape): the next value of id_iter names the new object
NewNode(w, label, shape) ==
    [w EXCEPT !.heap = (w.id_iter :> Node(w.id_iter, label, shape, None)) @@ @,
              !.id_iter = @ + 1,
              !.ids = Append(@, w.id_iter)]

leaf_node_map == [file |-> "[]", sql |-> "[()]", union_directory |-> "[[]]"]

LeafError ==
    "Exception: Leaf level sources should have one of the following types: file, sql & union_directory"
NestError ==
    "TypeError: Invalid simple source type or complex source without information on its children?"
DictError ==
    "Exception: Dependency dict error. Complex sources should have type: mapping, union or multi."

\* a builder that draws the path of a leaf from its parent to the leaf
leaf_path_Reversed(w, source_node, parent_source, map_right) ==
    IF ~IsNone(parent_source)
    THEN [w EXCEPT !.chart =
            add_path(@, w.heap, Val(parent_source), source_node, "",
                     IF map_right THEN "-.->" ELSE "-->")]
    ELSE w

\* lines 134-138: the path from a leaf to its parent
leaf_path(w, source_node, parent_source, map_right) ==
    IF ~IsNone(parent_source) THEN
        IF map_right
        THEN [w EXCEPT !.chart =
                add_path(@, w.heap, source_node, Val(parent_source), "", "-.->")]
        ELSE [w EXCEPT !.chart =
                add_path(@, w.heap, source_node, Val(parent_source), "", "-->")]
    ELSE w

\* a builder that also dashes the path of a composite on the right of a mapping
composite_path_Dashed(w, source_node, parent_source, map_right) ==
    leaf_path(w, source_node, parent_source, map_right)

\* lines 149-150: the path from a composite to its parent
composite_path(w, source_node, parent_source, map_right) ==
    IF ~IsNone(parent_source)
    THEN [w EXCEPT !.chart =
            add_path(@, w.heap, source_node, Val(parent_source), "", "-->")]
    ELSE w

RECURSIVE build_source_dependency_chart(_, _, _, _)
RECURSIVE build_union(_, _, _)

\* lines 160-163: the loop over the union nest's items
build_union(w, union_nest, source_node) ==
    IF Len(union_nest) = 0 \/ w.err # "" THEN w
    ELSE build_union(
            build_source_dependency_chart(w, <<Head(union_nest)>>, Some(source_node), FALSE),
            Tail(union_nest), source_node)

build_source_dependency_chart(w, tree, parent_source, map_right) ==
    IF w.err # "" THEN w
    ELSE IF Len(tree) = 0 THEN [w EXCEPT !.err = "StopIteration"]
    ELSE
    LET source == tree[1][1]
        nest == tree[1][2]
        source_node == w.id_iter
    IN  IF "str" \in DOMAIN nest THEN
            IF nest.str \notin DOMAIN leaf_node_map THEN [w EXCEPT !.err = LeafError]
            ELSE LET w1 == NewNode(w, source, leaf_node_map[nest.str])
                     w2 == [w1 EXCEPT !.chart = add_node(@, source_node)]
                 IN  leaf_path(w2, source_node, parent_source, map_right)
        ELSE IF "dict" \notin DOMAIN nest THEN [w EXCEPT !.err = NestError]
        ELSE
        LET w1 == NewNode(w, source, "{{}}")
            w2 == [w1 EXCEPT !.chart = add_node(@, source_node)]
            w3 == composite_path(w2, source_node, parent_source, map_right)
        IN  IF "mapping" \in DOMAIN nest.dict THEN
                LET mapping_tree == nest.dict.mapping
                    wl == build_source_dependency_chart(
                              w3, mapping_tree.left, Some(source_node), FALSE)
                IN  build_source_dependency_chart(
                        wl, mapping_tree.right, Some(source_node), TRUE)
            ELSE IF "union" \in DOMAIN nest.dict THEN
                build_union(w3, nest.dict.union, source_node)
            ELSE IF "multi" \in DOMAIN nest.dict THEN
                build_source_dependency_chart(w3, nest.dict.multi, Some(source_node), FALSE)
            ELSE [w3 EXCEPT !.err = DictError]

----------------------------------------------------------------------------
(* src/diagrams.py: get_source_mermaid_key, get_source_mermaid              *)

RECURSIVE NewNodes(_, _)
NewNodes(w, specs) ==
    IF Len(specs) = 0 THEN w
    ELSE NewNodes(NewNode(w, Head(specs)[1], Head(specs)[2]), Tail(specs))

\* the two legend charts; the Node and Flowchart objects are local to the call
get_source_mermaid_key(counter) ==
    LET c == counter
        w == NewNodes(World(counter, <<>>, Flowchart),
                << <<"File source", "[]">>, <<"SQL source", "[()]">>,
                   <<"Union of a directory", "[[]]">>, <<"Combined source", "{{}}">>,
                   <<"Mapped source", "{{}}">>, <<"File source left", "[]">>,
                   <<"SQL source right", "[()]">>,
                   <<"Unioned source", "{{}}">>, <<"Union directory", "[[]]">>,
                   <<"SQL", "[()]">>,
                   <<"Multi source", "{{}}">>, <<"Original SQL source", "[()]">> >>)
        h == w.heap
        node_chart == add_nodes(Flowchart, <<c, c + 1, c + 2, c + 3>>)
        p1 == add_nodes(Flowchart, <<c + 4, c + 5, c + 6>>)
        p2 == add_path(p1, h, c + 5, c + 4, "", "-->")
        p3 == add_path(p2, h, c + 6, c + 4, "", "-.->")
        p4 == add_nodes(p3, <<c + 7, c + 8, c + 9>>)
        p5 == add_path(p4, h, c + 8, c + 7, "", "-->")
        p6 == add_path(p5, h, c + 9, c + 7, "", "-->")
        p7 == add_nodes(p6, <<c + 10, c + 11>>)
        path_chart == add_path(p7, h, c + 11, c + 10, "", "-->")
    IN  [id_iter |-> w.id_iter, ids |-> w.ids,
         node_mermaid |-> to_mermaid(node_chart, h),
         path_mermaid |-> to_mermaid(path_chart, h)]

\* a pipeline that builds into the chart of the previous run, when there is one
get_source_mermaid_Reuse(config, source_key, counter, h) ==
    LET t == get_source_dependency_tree(config, Some(source_key), 1)
        chart == IF Len(charts) > 0 THEN charts[1] ELSE Flowchart
        w == IF t.err # "" THEN [World(counter, h, chart) EXCEPT !.err = t.err]
             ELSE build_source_dependency_chart(World(counter, h, chart), t.tree, None, FALSE)
    IN  [tree |-> t, world |-> w,
         mermaid |-> IF w.err # "" THEN None ELSE Some(to_mermaid(w.chart, w.heap))]

\* the pipeline: the outcome of the resolver, the world the build leaves, the markup
get_source_mermaid(config, source_key, counter, h) ==
    LET t == get_source_dependency_tree(config, Some(source_key), 1)
        w == IF t.err # "" THEN [World(counter, h, Flowchart) EXCEPT !.err = t.err]
             ELSE build_source_dependency_chart(
                     World(counter, h, Flowchart), t.tree, None, FALSE)
    IN  [tree |-> t, world |-> w,
         mermaid |-> IF w.err # "" THEN None ELSE Some(to_mermaid(w.chart, w.heap))]

----------------------------------------------------------------------------
(* The graph model as a state machine *)

GraphInit ==
    /\ id_iter = FirstId
    /\ heap = <<>>
    /\ charts = <<>>
    /\ issued = <<>>
    /\ mermaid = None
    /\ click_calls = <<>>
    /\ runs = {}
    /\ restarts = 0
    /\ sources_config = <<>>
    /\ dependency_tree = None

NodeRefs == DOMAIN heap
ChartRefs == DOMAIN charts

\* Node(label, shape)
CreateNode(label, shape) ==
    LET w == NewNode(World(id_iter, heap, Flowchart), label, shape)
    IN  /\ heap' = w.heap
        /\ id_iter' = w.id_iter
        /\ issued' = Append(issued, w.ids)
        /\ UNCHANGED <<charts, mermaid, click_calls, runs, restarts, sources_config, dependency_tree>>

\* Flowchart()
NewFlowchart ==
    /\ charts' = Append(charts, Flowchart)
    /\ UNCHANGED <<id_iter, heap, issued, mermaid, click_calls, runs, restarts, sources_config, dependency_tree>>

SetStyle(n, fill, stroke, stroke_width, stroke_dasharray) ==
    /\ heap' = [heap EXCEPT ![n] = set_style(@, fill, stroke, stroke_width, stroke_dasharray)]
    /\ UNCHANGED <<id_iter, charts, issued, mermaid, click_calls, runs, restarts, sources_config, dependency_tree>>

AddNode(g, n) ==
    /\ charts' = [charts EXCEPT ![g] = add_node(@, n)]
    /\ UNCHANGED <<id_iter, heap, issued, mermaid, click_calls, runs, restarts, sources_config, dependency_tree>>

AddNodes(g, node_list) ==
    /\ charts' = [charts EXCEPT ![g] = add_nodes(@, node_list)]
    /\ UNCHANGED <<id_iter, heap, issued, mermaid, click_calls, runs, restarts, sources_config, dependency_tree>>

AddPath(g, a, b, label, path_style) ==
    /\ charts' = [charts EXCEPT ![g] = add_path(@, heap, a, b, label, path_style)]
    /\ UNCHANGED <<id_iter, heap, issued, mermaid, click_calls, runs, restarts, sources_config, dependency_tree>>

AddHrefClick(g, n, click_value, tooltip) ==
    /\ charts' = [charts EXCEPT ![g] = add_href_click(@, heap, n, click_value, tooltip)]
    /\ UNCHANGED <<id_iter, heap, issued, mermaid, runs, restarts, sources_config, dependency_tree>>

AddFnClick(g, n, click_value, tooltip) ==
    /\ charts' = [charts EXCEPT ![g] = add_fn_click(@, heap, n, click_value, tooltip)]
    /\ UNCHANGED <<id_iter, heap, issued, mermaid, runs, restarts, sources_config, dependency_tree>>

ToMermaid(g) ==
    /\ mermaid' = Some(to_mermaid(charts[g], heap))
    /\ UNCHANGED <<id_iter, heap, charts, issued, click_calls, runs, restarts, sources_config, dependency_tree>>

\* build_source_dependency_chart(charts[g], tree) with the tree of key
BuildChart(g, key) ==
    LET t == get_source_dependency_tree(sources_config, Some(key), 1)
        w == build_source_dependency_chart(
                 World(id_iter, heap, charts[g]), t.tree, None, FALSE)
    IN  /\ t.err = ""
        /\ heap' = w.heap
        /\ id_iter' = w.id_iter
        /\ charts' = [charts EXCEPT ![g] = w.chart]
        /\ issued' = Append(issued, w.ids)
        /\ UNCHANGED <<mermaid, click_calls, runs, restarts, sources_config, dependency_tree>>

\* get_source_mermaid_key()
GetSourceMermaidKey ==
    LET r == get_source_mermaid_key(id_iter)
    IN  /\ id_iter' = r.id_iter
        /\ issued' = Append(issued, r.ids)
        /\ mermaid' = Some(<<r.node_mermaid, r.path_mermaid>>)
        /\ UNCHANGED <<heap, charts, click_calls, runs, restarts, sources_config, dependency_tree>>

\* get_source_mermaid(sources_config, key); charts keeps the chart it built
GetSourceMermaid(key) ==
    LET r == get_source_mermaid(sources_config, key, id_iter, heap)
        raised == r.world.err # ""
    IN  /\ dependency_tree' = Some([key |-> key] @@ r.tree)
        /\ heap' = r.world.heap
        /\ id_iter' = r.world.id_iter
        /\ charts' = IF raised THEN charts ELSE <<r.world.chart>>
        /\ issued' = IF Len(r.world.ids) = 0 THEN issued ELSE Append(issued, r.world.ids)
        /\ mermaid' = IF raised THEN mermaid ELSE r.mermaid
        /\ runs' = runs \cup {[key |-> key, start |-> id_iter, mermaid |-> r.mermaid,
                               process |-> restarts, before |-> heap]}
        /\ UNCHANGED <<click_calls, restarts, sources_config>>

\* the process ends and a new one imports the module: every object is gone and
\* Node.id_iter counts from its first value again
Restart ==
    /\ id_iter' = FirstId
    /\ heap' = <<>>
    /\ charts' = <<>>
    /\ issued' = <<>>
    /\ mermaid' = None
    /\ click_calls' = <<>>
    /\ dependency_tree' = None
    /\ restarts' = restarts + 1
    /\ UNCHANGED <<runs, sources_config>>

----------------------------------------------------------------------------
(* SpecResolve: the resolver applied to every sources config over Keys *)

Keys == {"a", "b", "c"}

Opt(S) == {None} \cup {Some(x) : x \in S}

\* the sequences over S without repetition (the keys of a dict), up to length n
DistinctSeqs(S, n) ==
    {q \in UNION {[1..k -> S] : k \in 0..n} : \A i, j \in DOMAIN q : q[i] = q[j] => i = j}

NoFields ==
    [type |-> None, left |-> None, right |-> None, sources |-> None,
     original |-> None, connection |-> None]

FileConnection == Some([config |-> Some({"file_type"})])

Connections == {None, Some([config |-> None]), Some([config |-> Some({})]), FileConnection}

UntypedDefs == {[NoFields EXCEPT !.connection = c] : c \in Connections}

TypedDefs(types) ==
    {[NoFields EXCEPT !.type = Some(t), !.connection = c] :
        t \in types, c \in {None, FileConnection}}

MappingDefs(children) ==
    {[NoFields EXCEPT !.type = Some("mapping"), !.left = l, !.right = r] :
        l \in Opt(children), r \in Opt(children)}

UnionDefs(children) ==
    {[NoFields EXCEPT !.type = Some("union"), !.sources = q] :
        q \in Opt(DistinctSeqs(children, MaxUnion))}

MultiDefs(children) ==
    {[NoFields EXCEPT !.type = Some("multi"), !.original = o] : o \in Opt(children)}

Definitions(children) ==
    UntypedDefs \cup TypedDefs({"union_directory", "bogus", "file", "sql"})
        \cup MappingDefs(children) \cup UnionDefs(children) \cup MultiDefs(children)

ResolveInit ==
    /\ id_iter = FirstId
    /\ heap = <<>>
    /\ charts = <<>>
    /\ issued = <<>>
    /\ mermaid = None
    /\ click_calls = <<>>
    /\ runs = {}
    /\ restarts = 0
    /\ sources_config \in [Keys -> Opt(Definitions(Keys))]
    /\ dependency_tree = None

\* get_source_dependency_tree(sources_config, key)
Resolve(key) ==
    /\ dependency_tree' =
          Some([key |-> key] @@ get_source_dependency_tree(sources_config, Some(key), 1))
    /\ UNCHANGED <<id_iter, heap, charts, issued, mermaid, click_calls, runs, restarts, sources_config>>

ResolveNext == \E key \in Keys : Resolve(key)

SpecResolve == ResolveInit /\ [][ResolveNext]_vars

----------------------------------------------------------------------------
(* Claims about the resolver, checked under SpecResolve *)

Resolved == ~IsNone(dependency_tree)
Outcome == Val(dependency_tree)
ResolvedDef == Val(sources_config[Outcome.key])
ResolvedPresent == Resolved /\ ~IsNone(sources_config[Outcome.key])

LeafTags == {"file", "sql", "union_directory"}

IsLeafTree(tree, key, tag) ==
    /\ Len(tree) = 1
    /\ tree[1][1] = key
    /\ "str" \in DOMAIN tree[1][2]
    /\ tree[1][2].str = tag

RECURSIVE WellShapedNest(_)
WellShapedNest(nest) ==
    IF "str" \in DOMAIN nest THEN nest.str \in LeafTags
    ELSE /\ "dict" \in DOMAIN nest
         /\ Cardinality(DOMAIN nest.dict) = 1
         /\ \/ /\ "mapping" \in DOMAIN nest.dict
               /\ DOMAIN nest.dict.mapping = {"left", "right"}
               /\ \A side \in {"left", "right"} :
                    /\ Len(nest.dict.mapping[side]) = 1
                    /\ WellShapedNest(nest.dict.mapping[side][1][2])
            \/ /\ "union" \in DOMAIN nest.dict
               /\ Len(nest.dict.union) >= 1
               /\ \A i \in DOMAIN nest.dict.union : WellShapedNest(nest.dict.union[i][2])
            \/ /\ "multi" \in DOMAIN nest.dict
               /\ Len(nest.dict.multi) = 1
               /\ WellShapedNest(nest.dict.multi[1][2])

WellShapedTree(tree) == Len(tree) = 1 /\ WellShapedNest(tree[1][2])

\* C2: every tree a successful resolve returns has one root key at every level,
\* leaves tagged file, sql or union_directory, and composites holding a non-empty
\* nested structure of their kind (mapping: left and right; union: at least one
\* child entry; multi: one nested tree).
C2_TreeInvariant ==
    (Resolved /\ Outcome.err = "") => WellShapedTree(Outcome.tree)

\* C3: for a key whose definition declares no kind, resolve fails with the
\* invalid-source-config error when the connection entry or its config entry is
\* missing, and otherwise returns {key: "file"} if the config holds file_type and
\* {key: "sql"} if not.
C3_UntypedSource ==
    (ResolvedPresent /\ IsNone(ResolvedDef.type)) =>
        IF IsNone(ResolvedDef.connection) \/ IsNone(Val(ResolvedDef.connection).config)
        THEN Outcome.err = InvalidSourceConfig
        ELSE /\ Outcome.err = ""
             /\ IsLeafTree(Outcome.tree, Outcome.key,
                    IF "file_type" \in Val(Val(ResolvedDef.connection).config)
                    THEN "file" ELSE "sql")

ChildKeys(config, k) ==
    IF IsNone(config[k]) THEN {}
    ELSE LET d == Val(config[k])
         IN  IF d.type = Some("mapping") THEN Range(d.left) \cup Range(d.right)
             ELSE IF d.type = Some("union")
                  THEN (IF IsNone(d.sources) THEN {} ELSE Range(Val(d.sources)))
             ELSE IF d.type = Some("multi") THEN Range(d.original)
             ELSE {}

RECURSIVE Closure(_, _, _)
Closure(config, S, n) ==
    IF n = 0 THEN S
    ELSE Closure(config, S \cup UNION {ChildKeys(config, k) : k \in S}, n - 1)

ReachableFrom(config, key) == Closure(config, {key}, Cardinality(Keys))
Descendants(config, key) == Closure(config, ChildKeys(config, key), Cardinality(Keys))

WellFormedDef(d) ==
    IF IsNone(d.type)
    THEN ~IsNone(d.connection) /\ ~IsNone(Val(d.connection).config)
    ELSE \/ Val(d.type) = "union_directory"
         \/ Val(d.type) = "mapping" /\ ~IsNone(d.left) /\ ~IsNone(d.right)
         \/ Val(d.type) = "union" /\ ~IsNone(d.sources)
         \/ Val(d.type) = "multi" /\ ~IsNone(d.original)

\* every key reachable from key is present, well-formed and on no cycle
WellFormedFrom(config, key) ==
    \A k \in ReachableFrom(config, key) :
        /\ ~IsNone(config[k])
        /\ WellFormedDef(Val(config[k]))
        /\ k \notin Descendants(config, k)

RECURSIVE NestSize(_)
RECURSIVE DictSize(_)
\* the number of nodes under the entries of a dict of trees
DictSize(d) ==
    IF Len(d) = 0 THEN 0 ELSE 1 + NestSize(Head(d)[2]) + DictSize(Tail(d))

NestSize(nest) ==
    IF "str" \in DOMAIN nest THEN 0
    ELSE IF "mapping" \in DOMAIN nest.dict
         THEN DictSize(nest.dict.mapping.left) + DictSize(nest.dict.mapping.right)
    ELSE IF "union" \in DOMAIN nest.dict THEN DictSize(nest.dict.union)
    ELSE DictSize(nest.dict.multi)

TreeSize(tree) == DictSize(tree)

\* C10: when every key reachable from the target key is present, well-formed and
\* acyclic, resolve returns a tree, and the tree of every successful resolve has
\* as many nodes as resolve invocations were made (a key counted once per
\* reference), so a union's merge loses no child tree.
C10_NodeCount ==
    Resolved =>
        /\ WellFormedFrom(sources_config, Outcome.key) => Outcome.err = ""
        /\ Outcome.err = "" => TreeSize(Outcome.tree) = Outcome.calls

\* a union of two children, one of them referring to the other's key, resolved
C10_Witness ==
    /\ ResolvedPresent
    /\ WellFormedFrom(sources_config, Outcome.key)
    /\ ResolvedDef.type = Some("union")
    /\ ~IsNone(ResolvedDef.sources)
    /\ Len(Val(ResolvedDef.sources)) = 2
    /\ Outcome.err = ""
    /\ Outcome.calls >= 4

----------------------------------------------------------------------------
(* Spec: one flowchart is populated, then serialized once *)

Items(c) ==
    Len(c.nodes) + Len(c.paths) + Len(c.clicks) + Len(c.hrefs)
        + Cardinality(NodeRefs) + Cardinality({n \in NodeRefs : ~IsNone(heap[n].style)})

NodeLists == {<<a, b>> : a \in NodeRefs, b \in NodeRefs}

Next ==
    \/ /\ Len(charts) < 1
       /\ NewFlowchart
    \/ /\ IsNone(mermaid)
       /\ \E g \in ChartRefs : Items(charts[g]) < MaxItems
       /\ CreateNode("A", "[]")
    \/ /\ IsNone(mermaid)
       /\ \E g \in ChartRefs, n \in NodeRefs :
            Items(charts[g]) < MaxItems /\ SetStyle(n, Some("#f9f"), None, None, None)
    \/ /\ IsNone(mermaid)
       /\ \E g \in ChartRefs, n \in NodeRefs :
            Items(charts[g]) < MaxItems /\ AddNode(g, n)
    \/ /\ IsNone(mermaid)
       /\ \E g \in ChartRefs, l \in NodeLists :
            Items(charts[g]) + Len(l) <= MaxItems /\ AddNodes(g, l)
    \/ /\ IsNone(mermaid)
       /\ \E g \in ChartRefs, a \in NodeRefs, b \in NodeRefs :
            Items(charts[g]) < MaxItems /\ AddPath(g, a, b, "", "-->")
    \/ /\ IsNone(mermaid)
       /\ \E g \in ChartRefs, n \in NodeRefs :
            /\ Items(charts[g]) < MaxItems
            /\ AddHrefClick(g, n, "u", "_blank")
            /\ UNCHANGED click_calls
    \/ /\ IsNone(mermaid)
       /\ \E g \in ChartRefs, n \in NodeRefs :
            /\ Items(charts[g]) < MaxItems
            /\ AddFnClick(g, n, "f", " ")
            /\ UNCHANGED click_calls
    \/ /\ IsNone(mermaid)
       /\ \E g \in ChartRefs : ToMermaid(g)

Spec == GraphInit /\ [][Next]_vars

----------------------------------------------------------------------------
(* Reading markup back: its lines, and the kind of each line by its syntax *)

\* text.split("\n")
Lines(text) ==
    LET breaks == {0, Len(text) + 1} \cup {i \in 1..Len(text) : SubSeq(text, i, i) = "\n"}
        nth(j) == CHOOSE x \in breaks : Cardinality({y \in breaks : y < x}) = j
    IN  [j \in 1..(Cardinality(breaks) - 1) |-> SubSeq(text, nth(j - 1) + 1, nth(j) - 1)]

StartsWith(text, prefix) ==
    Len(text) >= Len(prefix) /\ SubSeq(text, 1, Len(prefix)) = prefix

Contains(text, part) ==
    \E i \in 1..Len(text) :
        i + Len(part) - 1 <= Len(text) /\ SubSeq(text, i, i + Len(part) - 1) = part

IsDigit(ch) == \E i \in 1..Len(Digits) : SubSeq(Digits, i, i) = ch

RECURSIVE DropDigits(_)
DropDigits(text) ==
    IF Len(text) > 0 /\ IsDigit(Head(text)) THEN DropDigits(Tail(text)) ELSE text

\* header, node definition, style, edge, callback click or href click
LineKind(line) ==
    IF StartsWith(line, "graph ") THEN "header"
    ELSE IF StartsWith(line, "style ") THEN "style"
    ELSE IF StartsWith(line, "click ")
         THEN (IF Contains(line, " call ") THEN "click" ELSE "href")
    ELSE IF StartsWith(DropDigits(line), " ") THEN "edge"
    ELSE "node"

KindRank(kind) ==
    CASE kind = "header" -> 0
      [] kind \in {"node", "style"} -> 1
      [] kind = "edge" -> 2
      [] kind = "click" -> 3
      [] kind = "href" -> 4

KindsOnly(lines, kinds) == SelectSeq(lines, LAMBDA l : LineKind(l) \in kinds)
LinesOfKind(text, kinds) == KindsOnly(Lines(text), kinds)

\* the line a stored directive is emitted as
Body(directive) == LET t == strip(directive) IN SubSeq(t, 2, Len(t))

----------------------------------------------------------------------------
(* SpecStyle: nodes are created and styled with every combination of options *)

Fills == {None, Some("#f9f")}
Strokes == {None, Some("#333")}
StrokeWidths == {None, Some(2)}
DashArrays == {None, Some(<<5, 5>>)}

StyleNext ==
    \/ /\ Len(issued) < MaxNodes
       /\ CreateNode("A", "[]")
    \/ \E n \in NodeRefs, fill \in Fills, stroke \in Strokes,
          stroke_width \in StrokeWidths, stroke_dasharray \in DashArrays :
            SetStyle(n, fill, stroke, stroke_width, stroke_dasharray)

SpecStyle == GraphInit /\ [][StyleNext]_vars

\* style <id> followed by the supplied fields, separated by ", "
StyleDirective(node_id, fill, stroke, stroke_width, stroke_dasharray) ==
    LET fields ==
            (IF IsNone(fill) THEN <<>> ELSE <<"fill:" \o Val(fill)>>)
         \o (IF IsNone(stroke) THEN <<>> ELSE <<"stroke:" \o Val(stroke)>>)
         \o (IF IsNone(stroke_width) THEN <<>>
             ELSE <<"stroke-width:" \o str(Val(stroke_width)) \o "px">>)
         \o (IF IsNone(stroke_dasharray) THEN <<>>
             ELSE <<"stroke-dasharray: "
                     \o join(" ", [i \in DOMAIN Val(stroke_dasharray) |->
                                      str(Val(stroke_dasharray)[i])])>>)
    IN  "style " \o node_id \o (IF Len(fields) = 0 THEN "" ELSE " " \o join(", ", fields))

\* C7: for every combination of supplied and absent options, the none-supplied
\* call included, setStyle leaves the node with the directive `style <id>` (the
\* node's complete identity) followed by exactly the supplied fields in the order
\* fill, stroke, stroke-width, stroke-dasharray, with no trailing separator.
C7_StyleDirective ==
    [][\A n \in NodeRefs, fill \in Fills, stroke \in Strokes,
          stroke_width \in StrokeWidths, stroke_dasharray \in DashArrays :
            SetStyle(n, fill, stroke, stroke_width, stroke_dasharray) =>
                heap'[n].style =
                    Some(StyleDirective(heap[n].node_id, fill, stroke,
                                        stroke_width, stroke_dasharray))]_vars

----------------------------------------------------------------------------
(* SpecClicks: click directives are added to one chart, which is then      *)
(* serialized; click_calls records the calls in the order they were made   *)

HrefArgs == {<<"u", "_blank">>, <<"v", "tip">>}
FnArgs == {<<"f", " ">>, <<"g", "t">>}

ClickCall(kind, n, args) ==
    [kind |-> kind, node |-> n, click_value |-> args[1], tooltip |-> args[2]]

ClicksNext ==
    \/ /\ Len(charts) < 1
       /\ NewFlowchart
    \/ /\ IsNone(mermaid)
       /\ Len(issued) < MaxNodes
       /\ CreateNode("A", "[]")
    \/ /\ IsNone(mermaid)
       /\ Len(click_calls) < MaxClicks
       /\ \E g \in ChartRefs, n \in NodeRefs, args \in HrefArgs :
            /\ AddHrefClick(g, n, args[1], args[2])
            /\ click_calls' = Append(click_calls, ClickCall("href", n, args))
    \/ /\ IsNone(mermaid)
       /\ Len(click_calls) < MaxClicks
       /\ \E g \in ChartRefs, n \in NodeRefs, args \in FnArgs :
            /\ AddFnClick(g, n, args[1], args[2])
            /\ click_calls' = Append(click_calls, ClickCall("fn", n, args))
    \/ /\ IsNone(mermaid)
       /\ \E g \in ChartRefs : ToMermaid(g)

SpecClicks == GraphInit /\ [][ClicksNext]_vars

CallsOfKind(kind) == SelectSeq(click_calls, LAMBDA c : c.kind = kind)

\* the nodes of the calls, each once, in the order of their first call
RECURSIVE FirstCallOrder(_)
FirstCallOrder(calls) ==
    IF Len(calls) = 0 THEN <<>>
    ELSE LET before == FirstCallOrder(SubSeq(calls, 1, Len(calls) - 1))
             n == calls[Len(calls)].node
         IN  IF n \in Range(before) THEN before ELSE Append(before, n)

\* the nodes of the calls, each once, in the order of their last call
RECURSIVE LastCallOrder(_)
LastCallOrder(calls) ==
    IF Len(calls) = 0 THEN <<>>
    ELSE LET before == LastCallOrder(SubSeq(calls, 1, Len(calls) - 1))
             n == calls[Len(calls)].node
         IN  Append(SelectSeq(before, LAMBDA x : x # n), n)

LatestCall(calls, n) ==
    LET of == SelectSeq(calls, LAMBDA c : c.node = n) IN of[Len(of)]

\* the directive line of a call, by the markup grammar
DirectiveLine(c) ==
    IF c.kind = "href"
    THEN "click " \o heap[c.node].node_id \o " \"" \o c.click_value \o "\" "
            \o (IF c.tooltip = "_blank" THEN "_blank" ELSE "\"" \o c.tooltip \o "\" _blank")
    ELSE "click " \o heap[c.node].node_id \o " call " \o c.click_value
            \o " \"" \o c.tooltip \o "\""

\* one line per node of the order, holding the text of the node's latest call
DirectiveLines(calls, order) ==
    [i \in DOMAIN order |-> DirectiveLine(LatestCall(calls, order[i]))]

\* C6 as stated: serialize emits one directive of each kind per node, the text of
\* the latest call for that node, in the order of the last add call per node.
C6_LastAddOrder ==
    ~IsNone(mermaid) =>
        /\ LinesOfKind(Val(mermaid), {"click"}) =
              DirectiveLines(CallsOfKind("fn"), LastCallOrder(CallsOfKind("fn")))
        /\ LinesOfKind(Val(mermaid), {"href"}) =
              DirectiveLines(CallsOfKind("href"), LastCallOrder(CallsOfKind("href")))

\* C6 as amended: serialize emits one directive of each kind per node, the text
\* of the latest call for that node, in the order of the FIRST add call per node
\* (a later call for the same node replaces the text in place).
C6_FirstAddOrder ==
    ~IsNone(mermaid) =>
        /\ LinesOfKind(Val(mermaid), {"click"}) =
              DirectiveLines(CallsOfKind("fn"), FirstCallOrder(CallsOfKind("fn")))
        /\ LinesOfKind(Val(mermaid), {"href"}) =
              DirectiveLines(CallsOfKind("href"), FirstCallOrder(CallsOfKind("href")))

\* node A's href directive was added, then node B's, then node A's again with
\* another text, and the chart was serialized
C6_Witness ==
    /\ ~IsNone(mermaid)
    /\ Len(CallsOfKind("href")) = 3
    /\ CallsOfKind("href")[1].node = CallsOfKind("href")[3].node
    /\ CallsOfKind("href")[1].node # CallsOfKind("href")[2].node
    /\ CallsOfKind("href")[1].click_value # CallsOfKind("href")[3].click_value

----------------------------------------------------------------------------
(* Claims about serialization, checked under Spec *)

RECURSIVE NodeLines(_)
\* the definition line of each listed node, followed by its style line if any
NodeLines(nodes) ==
    IF Len(nodes) = 0 THEN <<>>
    ELSE LET node == heap[Head(nodes)]
             half == Len(node.shape) \div 2
         IN  <<node.node_id \o SubSeq(node.shape, 1, half) \o node.label
                   \o SubSeq(node.shape, half + 1, Len(node.shape))>>
             \o (IF IsNone(node.style) THEN <<>> ELSE <<Val(node.style)>>)
             \o NodeLines(Tail(nodes))

\* C8: serialize emits exactly the `graph <orientation>` header, then one
\* definition line per node in node-list order, each immediately followed by the
\* node's style line when it has one, then one line per edge in insertion order,
\* then the callback-click directives, then the href-click directives; no edge
\* line precedes a node line and no click line precedes an edge line.
C8_SerializeOrder ==
    ~IsNone(mermaid) =>
        \A g \in ChartRefs :
            LET c == charts[g]
                lines == Lines(Val(mermaid))
            IN  /\ lines = <<"graph " \o c.orientation>>
                        \o NodeLines(c.nodes)
                        \o [i \in DOMAIN c.paths |-> Body(c.paths[i])]
                        \o [i \in DOMAIN c.clicks |-> Body(c.clicks[i][2])]
                        \o [i \in DOMAIN c.hrefs |-> Body(c.hrefs[i][2])]
                /\ \A i, j \in DOMAIN lines :
                        i < j => KindRank(LineKind(lines[i])) <= KindRank(LineKind(lines[j]))
                /\ Len(KindsOnly(lines, {"node"})) = Len(c.nodes)
                /\ Len(KindsOnly(lines, {"edge"})) = Len(c.paths)
                /\ Len(KindsOnly(lines, {"click"})) = Len(c.clicks)
                /\ Len(KindsOnly(lines, {"href"})) = Len(c.hrefs)

\* a chart holding a styled node, an edge, a callback click and an href click
\* has been serialized
C8_Witness ==
    /\ ~IsNone(mermaid)
    /\ \E g \in ChartRefs :
        /\ \E i \in DOMAIN charts[g].nodes : ~IsNone(heap[charts[g].nodes[i]].style)
        /\ Len(charts[g].paths) > 0
        /\ Len(charts[g].clicks) > 0
        /\ Len(charts[g].hrefs) > 0

----------------------------------------------------------------------------
(* The example of the module docstring (src/diagrams.py, lines 13-24) as a *)
(* sources config                                                          *)

ExampleKeys ==
    {"source_key_example", "source_key1", "source_key2", "source_key3",
     "source_key4", "source_key5", "source_key6"}

ExampleConfig ==
    [k \in ExampleKeys |->
        CASE k = "source_key_example" ->
                Some([NoFields EXCEPT !.type = Some("mapping"),
                          !.left = Some("source_key1"), !.right = Some("source_key2")])
          [] k = "source_key2" ->
                Some([NoFields EXCEPT !.type = Some("union"),
                          !.sources = Some(<<"source_key3", "source_key4", "source_key5">>)])
          [] k = "source_key5" ->
                Some([NoFields EXCEPT !.type = Some("multi"), !.original = Some("source_key6")])
          [] k = "source_key6" -> Some([NoFields EXCEPT !.type = Some("union_directory")])
          [] k = "source_key4" ->
                Some([NoFields EXCEPT !.connection = Some([config |-> Some({})])])
          [] OTHER -> Some([NoFields EXCEPT !.connection = FileConnection])]

ExampleInit ==
    /\ id_iter = FirstId
    /\ heap = <<>>
    /\ charts = <<>>
    /\ issued = <<>>
    /\ mermaid = None
    /\ click_calls = <<>>
    /\ runs = {}
    /\ restarts = 0
    /\ sources_config = ExampleConfig
    /\ dependency_tree = None

----------------------------------------------------------------------------
(* SpecIds: nodes are created one by one, by builds into several charts    *)
(* and by the legend, in any order                                         *)

IdsNext ==
    \/ /\ Len(charts) < MaxGraphs
       /\ NewFlowchart
    \/ /\ Len(issued) < MaxCalls
       /\ CreateNode("A", "[]")
    \/ /\ Len(issued) < MaxCalls
       /\ \E g \in ChartRefs, key \in {"source_key2", "source_key6"} : BuildChart(g, key)
    \/ /\ Len(issued) < MaxCalls
       /\ GetSourceMermaidKey

SpecIds == ExampleInit /\ [][IdsNext]_vars

RECURSIVE Flatten(_)
Flatten(batches) ==
    IF Len(batches) = 0 THEN <<>> ELSE Head(batches) \o Flatten(Tail(batches))

\* C1: over any sequence of node creations, interleaved between graphs and
\* including the nodes created by the tree-to-graph builder and by the legend
\* builder, every identity issued is greater than every identity issued before
\* it, none is issued twice, and distinct nodes carry distinct identities.
C1_IdentitiesIncrease ==
    LET ids == Flatten(issued)
    IN  /\ \A i, j \in DOMAIN ids : i < j => ids[i] < ids[j]
        /\ \A i \in DOMAIN ids : ids[i] < id_iter
        /\ \A a, b \in NodeRefs : a # b => heap[a].node_id # heap[b].node_id
        /\ \A a \in NodeRefs : a \in Range(ids) /\ heap[a].node_id = str(a)
        /\ \A g \in ChartRefs : Range(charts[g].nodes) \subseteq NodeRefs

\* a node was created, then the legend was built, then a composite tree was
\* built into a chart
C1_Witness ==
    /\ Len(issued) = 3
    /\ Len(issued[1]) = 1
    /\ Len(issued[2]) = 12
    /\ Len(issued[3]) = 5
    /\ \E g \in ChartRefs : Len(charts[g].nodes) = 5

----------------------------------------------------------------------------
(* SpecBuild: the pipeline applied to every layered sources config over    *)
(* Keys: "a" may refer to "b" and "c", "b" to "c", "c" to no key           *)

LeafDefs ==
    {[NoFields EXCEPT !.connection = FileConnection],
     [NoFields EXCEPT !.connection = Some([config |-> Some({})])],
     [NoFields EXCEPT !.type = Some("union_directory")]}

TreeDefs(children) ==
    LeafDefs \cup
        {d \in MappingDefs(children) \cup UnionDefs(children) \cup MultiDefs(children) :
            WellFormedDef(d)}

BuildInit ==
    /\ id_iter = FirstId
    /\ heap = <<>>
    /\ charts = <<>>
    /\ issued = <<>>
    /\ mermaid = None
    /\ click_calls = <<>>
    /\ runs = {}
    /\ restarts = 0
    /\ \E a \in Opt(TreeDefs({"b", "c"})), b \in Opt(TreeDefs({"c"})), c \in Opt(LeafDefs) :
            sources_config = [k \in Keys |-> IF k = "a" THEN a ELSE IF k = "b" THEN b ELSE c]
    /\ dependency_tree = None

BuildNext ==
    /\ Len(issued) < MaxCalls
    /\ \E key \in Keys : GetSourceMermaid(key)

SpecBuild == BuildInit /\ [][BuildNext]_vars

RECURSIVE PreOrder(_, _)
RECURSIVE PreOrderUnion(_)
\* the nodes of a tree in pre-order: whether each is a leaf, and whether it is the
\* root of the right sub-tree of a mapping
PreOrder(tree, right) ==
    LET nest == tree[1][2]
        leaf == "str" \in DOMAIN nest
    IN  <<[key |-> tree[1][1], leaf |-> leaf, right |-> right]>>
        \o (IF leaf THEN <<>>
            ELSE IF "mapping" \in DOMAIN nest.dict
                 THEN PreOrder(nest.dict.mapping.left, FALSE)
                      \o PreOrder(nest.dict.mapping.right, TRUE)
            ELSE IF "union" \in DOMAIN nest.dict THEN PreOrderUnion(nest.dict.union)
            ELSE PreOrder(nest.dict.multi, FALSE))

PreOrderUnion(d) ==
    IF Len(d) = 0 THEN <<>> ELSE PreOrder(<<Head(d)>>, FALSE) \o PreOrderUnion(Tail(d))

TakeDigits(text) == SubSeq(text, 1, Len(text) - Len(DropDigits(text)))

Built == Resolved /\ Outcome.err = "" /\ Len(charts) = 1
BuiltStart == issued[Len(issued)][1]

\* the pre-order position of the node an edge line starts from
EdgeSource(line, size) ==
    CHOOSE k \in 1..size : str(BuiltStart + k - 1) = TakeDigits(line)

\* C5: in the graph build produces from a well-formed tree, an edge is dashed if
\* and only if its source node is a leaf that is the root of the right sub-tree of
\* a mapping; every other edge is solid (the edge of a composite on the right of
\* a mapping, the edges of the children of a union or a multi), so a tree without
\* a mapping yields no dashed edge.
C5_DashedEdges ==
    Built =>
        LET pre == PreOrder(Outcome.tree, FALSE)
            edges == [i \in DOMAIN charts[1].paths |-> Body(charts[1].paths[i])]
        IN  /\ \A i \in DOMAIN edges :
                LET from == pre[EdgeSource(edges[i], Len(pre))]
                IN  /\ Contains(edges[i], " -.->") <=> (from.leaf /\ from.right)
                    /\ ~Contains(edges[i], " -.->") => Contains(edges[i], " -->")
            /\ \A k \in DOMAIN pre :
                k > 1 => \E i \in DOMAIN edges : EdgeSource(edges[i], Len(pre)) = k

\* a tree was built in which one mapping has a composite on its right and another
\* has a leaf on its right
C5_Witness ==
    /\ Built
    /\ \E k \in DOMAIN PreOrder(Outcome.tree, FALSE) :
            LET n == PreOrder(Outcome.tree, FALSE)[k] IN n.right /\ ~n.leaf
    /\ \E k \in DOMAIN PreOrder(Outcome.tree, FALSE) :
            LET n == PreOrder(Outcome.tree, FALSE)[k] IN n.right /\ n.leaf

----------------------------------------------------------------------------
(* SpecPipeline: the pipeline runs on the docstring's example in a process *)
(* and again in a second process, among other node creations               *)

PipelineKeys == {"source_key_example", "source_key2", "source_key5", "source_key6"}

PipelineNext ==
    \/ /\ Len(issued) < MaxRuns
       /\ CreateNode("A", "[]")
    \/ /\ Len(issued) < MaxRuns
       /\ \E key \in PipelineKeys : GetSourceMermaid(key)
    \/ /\ restarts = 0
       /\ Restart

SpecPipeline == ExampleInit /\ [][PipelineNext]_vars

\* C9: two runs of resolve, build, serialize on the same configuration and key,
\* each started with the identity counter at the same value, return the same
\* markup, whatever else the process has created before.
C9_Deterministic ==
    \A r1, r2 \in runs :
        (r1.key = r2.key /\ r1.start = r2.start) => r1.mermaid = r2.mermaid

\* the same key was run from the same counter value in two processes, after
\* different creations
C9_Witness ==
    \E r1, r2 \in runs :
        /\ r1.key = r2.key
        /\ r1.start = r2.start
        /\ r1.process # r2.process
        /\ r1.before # r2.before
        /\ ~IsNone(r1.mermaid)

----------------------------------------------------------------------------
(* The shape of the chart the pipeline builds, read against the tree       *)

RECURSIVE ParentOf(_, _, _)
RECURSIVE ParentOfUnion(_, _, _)
\* for each node of a tree in pre-order, the pre-order position of its tree parent
\* (parent for the root); at is the position of the root of this tree
ParentOf(tree, parent, at) ==
    LET nest == tree[1][2]
    IN  <<parent>>
        \o (IF "str" \in DOMAIN nest THEN <<>>
            ELSE IF "mapping" \in DOMAIN nest.dict
                 THEN LET left == ParentOf(nest.dict.mapping.left, at, at + 1)
                      IN  left \o ParentOf(nest.dict.mapping.right, at, at + 1 + Len(left))
            ELSE IF "union" \in DOMAIN nest.dict
                 THEN ParentOfUnion(nest.dict.union, at, at + 1)
            ELSE ParentOf(nest.dict.multi, at, at + 1))

ParentOfUnion(d, parent, at) ==
    IF Len(d) = 0 THEN <<>>
    ELSE LET first == ParentOf(<<Head(d)>>, parent, at)
         IN  first \o ParentOfUnion(Tail(d), parent, at + Len(first))

\* the identity an edge line ends with
EdgeTarget(line) ==
    LET rest == DropDigits(line)
    IN  IF StartsWith(rest, " -.->") THEN SubSeq(rest, 6, Len(rest))
        ELSE IF StartsWith(rest, " -->") THEN SubSeq(rest, 5, Len(rest))
        ELSE rest

\* C11: build applied to an empty graph and a well-formed tree, with no parent
\* supplied, yields exactly one node per tree node and exactly one edge per
\* non-root tree node; each edge goes from the node of a child to the node created
\* for its tree parent, which is earlier in the node list and has a smaller
\* identity; the root has no outgoing edge and no leaf has an incoming edge.
C11_ChartMirrorsTree ==
    Built =>
        LET pre == PreOrder(Outcome.tree, FALSE)
            par == ParentOf(Outcome.tree, 0, 1)
            nodes == charts[1].nodes
            edges == [i \in DOMAIN charts[1].paths |-> Body(charts[1].paths[i])]
            id(k) == str(BuiltStart + k - 1)
            From(k) == {i \in DOMAIN edges : TakeDigits(edges[i]) = id(k)}
            Into(k) == {i \in DOMAIN edges : EdgeTarget(edges[i]) = id(k)}
        IN  /\ Len(nodes) = Len(pre)
            /\ Len(par) = Len(pre)
            /\ \A k \in DOMAIN pre :
                /\ nodes[k] \in NodeRefs
                /\ heap[nodes[k]].node_id = id(k)
                /\ heap[nodes[k]].label = pre[k].key
            /\ Len(edges) = Len(pre) - 1
            /\ From(1) = {}
            /\ \A k \in DOMAIN pre :
                k > 1 => /\ Cardinality(From(k)) = 1
                         /\ par[k] \in 1..(k - 1)
                         /\ \A i \in From(k) : EdgeTarget(edges[i]) = id(par[k])
            /\ \A k \in DOMAIN pre : pre[k].leaf => Into(k) = {}

\* a tree of three levels was built, with a composite below the root that has
\* children of its own
C11_Witness ==
    /\ Built
    /\ Len(charts[1].paths) >= 3
    /\ \E k \in DOMAIN ParentOf(Outcome.tree, 0, 1) : ParentOf(Outcome.tree, 0, 1)[k] > 1

====
